---- MODULE Spec2Model ----
(***************************************************************************)
(* Model of Gratheon/graphql-router.                                       *)
(*                                                                         *)
(*   Spec         the Supergraph Manager (src/src/supergraph.ts) polling   *)
(*                the schema registry (src/src/poll-schema-registry.ts)    *)
(*   SpecRequest  one HTTP request through contextFunction, the /graphql   *)
(*                middleware and the gateway (src/src/graphql-router.ts)   *)
(*   SpecGate     isRequestAllowed applied to bounded inputs               *)
(*   SpecDispatch RemoteGraphQLDataSource.process (src/unnamed/part_003)   *)
(*   SpecLifecycle, SpecLifecycleFair                                      *)
(*                the manager through several initialize calls, without    *)
(*                and with the fairness of the event loop                  *)
(***************************************************************************)
EXTENDS Integers, Sequences, FiniteSets, TLC

VARIABLES
    \* ---- CustomSupergraphManager fields (supergraph.ts:55-60)
    pollIntervalInMs,   \* constructor option
    serviceSdlCache,    \* Map name -> last seen type_defs
    state,              \* ManagerState.phase
    update,             \* TRUE once initialize stored the update callback
    timerRef,           \* 0 = null, otherwise the id of the Timeout object
    \* ---- event loop
    timers,             \* ids of the timeouts that are armed and not yet fired
    pollTask,           \* per timer id: position of its callback
    initAwait,          \* initialize calls awaiting the registry
    initCalls,          \* initialize calls made so far
    cleanupReturned,    \* some initialize has returned its cleanup function
    cleanupCalls,       \* calls of the cleanup function made so far
    \* ---- what the gateway and the registry have seen
    gatewaySdl,         \* SDL last handed to the gateway, as initialize's
                        \* result or as update's argument
    lastFetch,          \* registry reply of the most recent build
    lastCycle,          \* record of the most recently completed build cycle
    \* ---- one HTTP request on /graphql (graphql-router.ts)
    reqPc,              \* position of the request in the pipeline
    request,            \* credentials, query document and variables
    identityReply,      \* what the identity service answered, if it was asked
    authPaths,          \* validation paths that were executed
    contextData,        \* MyContext built by contextFunction
    subgraphHeaders,    \* headers of the subgraph requests sent
    response,           \* HTTP status and GraphQL errors sent back
    \* ---- isRequestAllowed applied to one input
    gatePc,
    gateInput,
    gateResult,
    \* ---- RemoteGraphQLDataSource.process applied to one sub-request
    dispPc,             \* position of the call: idle, awaitFetch, settled
    dispCall,           \* the call in progress and the HTTP request it built
    dispResult,         \* what process returned or threw
    prevCall,           \* the call completed before this one
    \* ---- the error-handling middleware applied to one error
    errPc,              \* position: idle, raised, handled
    errInput,           \* the value passed to next(err), and res.headersSent
    errResponse,        \* status and message sent, or the error passed on
    \* ---- the query-log plugin (request-logger.ts)
    producer,           \* module variable: 0 = undefined, else a producer id
    producersCreated,   \* kafka.producer() calls made so far
    connected,          \* ids of the producers whose connect() resolved
    logPc,              \* per request: position inside requestDidStart
    logProducer,        \* per request: the producer it connects or sends with
    logResult           \* per request: how requestDidStart ended

managerVars == <<pollIntervalInMs, serviceSdlCache, state, update, timerRef,
                 timers, pollTask, initAwait, initCalls, cleanupReturned,
                 cleanupCalls, gatewaySdl, lastFetch, lastCycle>>

requestVars == <<reqPc, request, identityReply, authPaths, contextData,
                 subgraphHeaders, response>>

gateVars == <<gatePc, gateInput, gateResult>>

dispatchVars == <<dispPc, dispCall, dispResult, prevCall>>

handlerVars == <<errPc, errInput, errResponse>>

loggerVars == <<producer, producersCreated, connected, logPc, logProducer,
                logResult>>

vars == <<managerVars, requestVars, gateVars, dispatchVars, handlerVars,
          loggerVars>>

-----------------------------------------------------------------------------
(* Bounds of the model                                                     *)

\* how many times the gateway may call initialize
MaxInitCalls == 1
\* how many Timeout objects are told apart
MaxTimerIds == 3
\* how many times initialize may be called where the lifecycle is studied
MaxLifecycleInitCalls == 2
\* how many times the gateway may call the cleanup function
MaxCleanupCalls == 1
\* how many times cleanup may be called where the lifecycle is studied
MaxLifecycleCleanupCalls == 2
\* how many requests the query-log plugin serves at the same time
MaxLogRequests == 2
\* how many Kafka producers the plugin may create
MaxProducers == 2

-----------------------------------------------------------------------------
(* Values                                                                  *)

Undefined == "undefined"
\* a missing (falsy) url of a registry entry
NoUrl == ""
\* typeDefs of an entry whose type_defs did not parse
UndefinedAst == <<>>
\* url of a mapped service whose registry entry has no url
UndefinedUrl == <<>>
\* no SDL handed to the gateway yet
NoSdl == <<>>

ServiceNames == {"A", "B"}
\* "bad" is a type_defs text that graphql's parse() rejects
TypeDefTexts == {"v1", "v2", "bad"}
DefaultTypeDefs == "type Query { default: String }"
ParseableTexts == {"v1", "v2", DefaultTypeDefs}

\* entries the registry may hold: service A always has a url and type_defs
\* that parse, service B may lack its url or carry type_defs that do not parse
RawSchemaDefinitions ==
    [name : {"A"}, url : {"host"}, type_defs : {"v1", "v2"}]
    \cup [name : {"B"}, url : {"host"}, type_defs : TypeDefTexts]
    \cup [name : {"B"}, url : {NoUrl}, type_defs : {"v1", "v2"}]

\* /schema/latest answers with at most one entry per service name
Snapshots ==
    {<<>>}
    \cup {<<e>> : e \in RawSchemaDefinitions}
    \cup {<<a, b>> : a \in {e \in RawSchemaDefinitions : e.name = "A"},
                     b \in {e \in RawSchemaDefinitions : e.name = "B"}}

\* outcome of the GET: a decoded envelope, or a network/decode failure
FetchResults ==
    {[ok |-> FALSE, data |-> <<>>]} \cup {[ok |-> TRUE, data |-> s] : s \in Snapshots}

NoFetch == [ok |-> FALSE, data |-> <<[name |-> "none"]>>]

\* registry answers that tell the outcomes of a build apart: the request
\* fails, one subgraph composes, two subgraphs fail to compose
LifecycleFetchResults ==
    {f \in FetchResults :
        \/ ~f.ok
        \/ f.data = <<[name |-> "A", url |-> "host", type_defs |-> "v1"]>>
        \/ f.data = <<[name |-> "A", url |-> "host", type_defs |-> "v2"],
                      [name |-> "B", url |-> "host", type_defs |-> "v2"]>>}

PollIntervals == {0, 30000}
TimerIds == 1..MaxTimerIds

-----------------------------------------------------------------------------
(* poll-schema-registry.ts                                                 *)

\* graphql parse(): a DocumentNode, or a throw (caught at line 81, leaving
\* typeDefsAst undefined)
Parse(text) ==
    IF text \in ParseableTexts THEN <<"Document", text>> ELSE UndefinedAst

\* line 91: schema.url ? `http://${schema.url}` : undefined
ServiceUrl(url) ==
    IF url # NoUrl THEN <<"http://", url>> ELSE UndefinedUrl

\* a comparison that takes a name seen for the first time for unchanged
TypeDefsChangedKnownOnly(cache, schema) ==
    /\ cache[schema.name] # Undefined
    /\ schema.type_defs # cache[schema.name]

\* a comparison made only for the entries that will be kept
TypeDefsChangedIfKept(cache, schema) ==
    /\ schema.type_defs # cache[schema.name]
    /\ schema.url # NoUrl
    /\ Parse(schema.type_defs) # UndefinedAst

\* lines 69-73: the entry differs from what the cache holds for its name
TypeDefsChanged(cache, schema) ==
    schema.type_defs # cache[schema.name]

\* lines 56-95: rawSchemas.map(...), updating serviceSdlCache and
\* schemaChanged as it goes
RECURSIVE MapSchemas(_, _, _, _)
MapSchemas(rawSchemas, cache, schemaChanged, mapped) ==
    IF rawSchemas = <<>>
    THEN [mappedServices |-> mapped, serviceSdlCache |-> cache,
          schemaChanged |-> schemaChanged]
    ELSE LET schema == Head(rawSchemas)
             service == [name |-> schema.name,
                         url |-> ServiceUrl(schema.url),
                         typeDefs |-> Parse(schema.type_defs)]
         IN MapSchemas(Tail(rawSchemas),
                       [cache EXCEPT ![schema.name] = schema.type_defs],
                       schemaChanged \/ TypeDefsChanged(cache, schema),
                       Append(mapped, service))

\* a filter that looks at the parsed typeDefs only
IsServiceDefinitionWithoutUrl(service) ==
    service.typeDefs # UndefinedAst

\* lines 98-101: the filter's predicate
IsServiceDefinition(service) ==
    service.url # UndefinedUrl /\ service.typeDefs # UndefinedAst

\* an error path that empties the cache
CacheAfterFailedFetchCleared(cache) ==
    [n \in DOMAIN cache |-> Undefined]

\* lines 106-110: the catch returns without having written the cache (the
\* request is the first statement that can throw)
CacheAfterFailedFetch(cache) == cache

\* lines 31-111
GetServiceListWithTypeDefs(cache, fetch) ==
    IF fetch.ok
    THEN LET m == MapSchemas(fetch.data, cache, FALSE, <<>>)
         IN [services |-> SelectSeq(m.mappedServices, IsServiceDefinition),
             schemaChanged |-> m.schemaChanged,
             serviceSdlCache |-> m.serviceSdlCache]
    ELSE [services |-> <<>>, schemaChanged |-> FALSE,
          serviceSdlCache |-> CacheAfterFailedFetch(cache)]

-----------------------------------------------------------------------------
(* supergraph.ts                                                           *)

\* lines 47-52
defaultService ==
    [name |-> "default",
     url |-> <<"http://", "localhost:8080/graphql">>,
     typeDefs |-> Parse(DefaultTypeDefs)]

\* @apollo/composition composeServices: the supergraph SDL is a function of
\* the list of services; it reports errors when two subgraphs both carry
\* the "v2" definitions, which declare the same field without sharing it
ComposeServicesErrors(services) ==
    \E i, j \in 1..Len(services) :
        /\ i < j
        /\ services[i].typeDefs = Parse("v2")
        /\ services[j].typeDefs = Parse("v2")

ComposedSdl(services) == services

\* a compose that returns the SDL although composeServices reported errors
composeIgnoringErrors(services) ==
    [threw |-> FALSE, supergraphSdl |-> ComposedSdl(services)]

\* lines 166-184
compose(services) ==
    IF ComposeServicesErrors(services)
    THEN [threw |-> TRUE, supergraphSdl |-> NoSdl]
    ELSE [threw |-> FALSE, supergraphSdl |-> ComposedSdl(services)]

\* a build without the fallback to the default service
UseDefaultServiceNever(services) ==
    FALSE

\* lines 93-97: the condition under which the default service is used
UseDefaultService(services) ==
    Len(services) = 0

HasTypeDefs(s) == s.typeDefs # UndefinedAst

\* lines 90-111
buildSupergraph(cache, fetch) ==
    LET r == GetServiceListWithTypeDefs(cache, fetch)
        services == IF UseDefaultService(r.services)
                    THEN <<defaultService>> ELSE r.services
        schemaChanged == IF UseDefaultService(r.services)
                         THEN TRUE ELSE r.schemaChanged
        validServices == SelectSeq(services, HasTypeDefs)
        composed == IF Len(validServices) = 0
                    THEN [threw |-> TRUE, supergraphSdl |-> NoSdl]
                    ELSE compose(validServices)
    IN [threw |-> composed.threw,
        supergraphSdl |-> composed.supergraphSdl,
        schemaChanged |-> schemaChanged,
        registryChanged |-> r.schemaChanged,
        composeCalled |-> Len(validServices) > 0,
        composerInput |-> validServices,
        serviceSdlCache |-> r.serviceSdlCache,
        usable |-> Len(r.services),
        composeErrors |-> ComposeServicesErrors(validServices)]

\* line 141: schemaChanged && this.update
ShouldUpdate(schemaChanged, hasUpdate) ==
    schemaChanged /\ hasUpdate

\* beginPolling without its phase guard for a manager that was stopped
ShouldBeginPollingUnlessPolling(interval, phase) ==
    interval # 0 /\ phase # "polling"

\* beginPolling without its phase guard for a manager that is polling
ShouldBeginPollingUnlessStopped(interval, phase) ==
    interval # 0 /\ phase # "stopped"

\* beginPolling called whatever the configured interval
ShouldBeginPollingAnyInterval(interval, phase) ==
    phase = "initialized"

\* lines 72-73 with 114-117: initialize calls beginPolling when the interval
\* is truthy, and beginPolling goes on only from the initialized phase
ShouldBeginPolling(interval, phase) ==
    interval # 0 /\ phase = "initialized"

\* a re-arm placed inside the try block, skipped when the cycle threw
RearmAfterSuccess(phase, threw) ==
    phase = "polling" /\ ~threw

\* a loop that schedules the next tick after every cycle that did not throw,
\* whatever the phase
RearmUnlessThrew(phase, threw) == ~threw

\* line 155, after the try/catch: the next poll is scheduled while the phase
\* is polling, whether the cycle threw or not
RearmAfterCycle(phase, threw) ==
    phase = "polling"

\* setTimeout hands out a Timeout object that is not in use
FreeTimerIds ==
    {t \in TimerIds : t \notin timers /\ pollTask[t].pc = "none"}

NewTimerId == CHOOSE t \in FreeTimerIds : \A u \in FreeTimerIds : t <= u

\* lines 123-162, the synchronous part of poll(): clear the referenced timer
\* and arm a new one
PollTimers == (timers \ {timerRef}) \cup {NewTimerId}

-----------------------------------------------------------------------------
(* graphql-router.ts: isRequestAllowed                                     *)

\* how many entries a scope set may hold
MaxScopeEntries == 2

\* JavaScript values as they come out of JSON.parse: primitives carry their
\* type, an array is an object and carries the identity of the JSON document
\* it was decoded from
JsValue(t, v, ref) == [t |-> t, v |-> v, ref |-> ref]
UndefinedValue == JsValue("undefined", "", "")
Str(v) == JsValue("string", v, "")
Num(v) == JsValue("number", v, "")
Arr(v, ref) == JsValue("array", v, ref)

\* a == b: a string and a number with the same digits are equal
LooseEquals(a, b) ==
    /\ a.v = b.v
    /\ a.ref = b.ref

\* a === b: no coercion between types; objects are equal only to themselves
StrictEquals(a, b) ==
    /\ a.t = b.t
    /\ a.v = b.v
    /\ a.ref = b.ref

\* variables?.[argName]
VariableValue(variables, argName) ==
    IF variables.defined /\ argName \in DOMAIN variables.map
    THEN variables.map[argName]
    ELSE UndefinedValue

\* lines 131-138: visit() calls the OperationDefinition visitor for every
\* operation in document order; each query whose first selection is a Field
\* assigns operationName
RECURSIVE VisitOperations(_, _)
VisitOperations(definitions, operationName) ==
    IF definitions = <<>>
    THEN operationName
    ELSE LET node == Head(definitions)
             firstSelection == node.selections[1]
         IN VisitOperations(Tail(definitions),
                IF node.operation = "query" /\ firstSelection.kind = "Field"
                THEN firstSelection.name
                ELSE operationName)

NoOperationName == ""

\* lines 143-149: the for..in loop over requiredArgs with its break
RECURSIVE RequiredArgsMatch(_, _)
RequiredArgsMatch(requiredArgs, variables) ==
    IF requiredArgs = <<>>
    THEN TRUE
    ELSE IF ~StrictEquals(VariableValue(variables, Head(requiredArgs).name),
                          Head(requiredArgs).value)
         THEN FALSE
         ELSE RequiredArgsMatch(Tail(requiredArgs), variables)

\* lines 141-150: one allowedQuery against the operation
EntryAllows(allowedQuery, operationName, variables) ==
    /\ allowedQuery.queryName = operationName
    /\ IF allowedQuery.hasRequiredArgs
       THEN RequiredArgsMatch(allowedQuery.requiredArgs, variables)
       ELSE TRUE

\* lines 140-152: the loop over scopes.allowedQueries with its break
RECURSIVE ScanAllowedQueries(_, _, _)
ScanAllowedQueries(allowedQueries, operationName, variables) ==
    IF allowedQueries = <<>>
    THEN FALSE
    ELSE IF EntryAllows(Head(allowedQueries), operationName, variables)
         THEN TRUE
         ELSE ScanAllowedQueries(Tail(allowedQueries), operationName, variables)

\* lines 127-155
isRequestAllowed(queryAst, variables, scopes) ==
    IF ~(scopes.defined /\ scopes.hasAllowedQueries)
    THEN FALSE
    ELSE LET operationName == VisitOperations(queryAst, NoOperationName)
         IN IF operationName = NoOperationName
            THEN FALSE
            ELSE ScanAllowedQueries(scopes.allowedQueries, operationName, variables)

(* Inputs of isRequestAllowed *)

\* an argument of a field and its value node: a reference to a variable
\* (kind "Variable", named variable) or a literal (kind "StringValue", value)
ArgumentNode(name, kind, variable, value) ==
    [name |-> name,
     value |-> [kind |-> kind, name |-> variable, value |-> value]]

FieldWithArguments(name, arguments) ==
    [kind |-> "Field", name |-> name, arguments |-> arguments]
Field(name) == FieldWithArguments(name, <<>>)
FragmentSpread(name) == [kind |-> "FragmentSpread", name |-> name]
Operation(operation, selections) ==
    [operation |-> operation, selections |-> selections]

QueryNames == {"hive", "apiaries"}

\* parsed documents: one or two operations, one or two top-level selections,
\* a field without arguments or with its id bound to a variable or a literal
Documents ==
    { <<Operation("query", <<Field("hive")>>)>>,
      <<Operation("query", <<Field("apiaries")>>)>>,
      <<Operation("query", <<Field("hives")>>)>>,
      <<Operation("mutation", <<Field("hive")>>)>>,
      <<Operation("query", <<Field("hive"), Field("apiaries")>>)>>,
      <<Operation("query", <<FragmentSpread("F"), Field("hive")>>)>>,
      <<Operation("query", <<Field("hive")>>),
        Operation("query", <<Field("apiaries")>>)>>,
      <<Operation("query", <<Field("apiaries")>>),
        Operation("mutation", <<Field("hive")>>)>>,
      <<Operation("query", <<Field("hive")>>),
        Operation("query", <<FragmentSpread("F"), Field("apiaries")>>)>>,
      <<Operation("query", <<FragmentSpread("F"), Field("hive")>>),
        Operation("query", <<Field("apiaries")>>)>>,
      <<Operation("query", <<FieldWithArguments("hive",
            <<ArgumentNode("id", "Variable", "id", UndefinedValue)>>)>>)>>,
      <<Operation("query", <<FieldWithArguments("hive",
            <<ArgumentNode("id", "Variable", "box", UndefinedValue)>>)>>)>>,
      <<Operation("query", <<FieldWithArguments("hive",
            <<ArgumentNode("id", "StringValue", "", Str("7"))>>)>>)>> }

Arg(name, value) == [name |-> name, value |-> value]

\* requiredArgs of a scope entry, decoded from the identity service's JSON
RequiredArgsChoices ==
    { <<>>,
      <<Arg("id", Str("42"))>>,
      <<Arg("id", Num("42"))>>,
      <<Arg("id", Arr("42", "scopes"))>>,
      <<Arg("id", Str("42")), Arg("box", Str("1"))>> }

AllowedQueries ==
    [queryName : QueryNames, hasRequiredArgs : {TRUE},
     requiredArgs : RequiredArgsChoices]
    \cup [queryName : QueryNames, hasRequiredArgs : {FALSE},
          requiredArgs : {<<>>}]

Scopes(allowedQueries) ==
    [defined |-> TRUE, hasAllowedQueries |-> TRUE,
     allowedQueries |-> allowedQueries]
UndefinedScopes ==
    [defined |-> FALSE, hasAllowedQueries |-> FALSE, allowedQueries |-> <<>>]
ScopesWithoutAllowedQueries ==
    [defined |-> TRUE, hasAllowedQueries |-> FALSE, allowedQueries |-> <<>>]

ScopeSets ==
    {UndefinedScopes, ScopesWithoutAllowedQueries}
    \cup {Scopes(q) : q \in UNION {[1..n -> AllowedQueries] : n \in 0..MaxScopeEntries}}

Variables(map) == [defined |-> TRUE, map |-> map]
UndefinedVariables == [defined |-> FALSE, map |-> <<>>]
EmptyMap == [k \in {} |-> UndefinedValue]

\* variables of the request body
VariableMaps ==
    { UndefinedVariables,
      Variables(EmptyMap),
      Variables([k \in {"id"} |-> Str("42")]),
      Variables([k \in {"id"} |-> Str("7")]),
      Variables([k \in {"id"} |-> Num("42")]),
      Variables([k \in {"id"} |-> Arr("42", "body")]),
      Variables([k \in {"id", "box"} |-> IF k = "id" THEN Str("42") ELSE Str("1")]),
      Variables([k \in {"id", "box"} |-> IF k = "id" THEN Str("42") ELSE Str("2")]) }

GateInputs == [queryAst : Documents, variables : VariableMaps, scopes : ScopeSets]

NoGateInput ==
    [queryAst |-> <<Operation("query", <<Field("hive")>>)>>,
     variables |-> UndefinedVariables, scopes |-> UndefinedScopes]

InitGate ==
    /\ gatePc = "idle"
    /\ gateInput = NoGateInput
    /\ gateResult = FALSE

\* a caller hands one operation, its variables and a scope set to the gate
GateCalled ==
    /\ gatePc = "idle"
    /\ gatePc' = "called"
    /\ gateInput' \in GateInputs
    /\ UNCHANGED gateResult
    /\ UNCHANGED <<managerVars, requestVars, dispatchVars, handlerVars, loggerVars>>

\* isRequestAllowed returns
GateReturns ==
    /\ gatePc = "called"
    /\ gatePc' = "returned"
    /\ gateResult' = isRequestAllowed(gateInput.queryAst, gateInput.variables,
                                      gateInput.scopes)
    /\ UNCHANGED gateInput
    /\ UNCHANGED <<managerVars, requestVars, dispatchVars, handlerVars, loggerVars>>

\* the caller is ready for the next call
GateReset ==
    /\ gatePc = "returned"
    /\ gatePc' = "idle"
    /\ gateInput' = NoGateInput
    /\ gateResult' = FALSE
    /\ UNCHANGED <<managerVars, requestVars, dispatchVars, handlerVars, loggerVars>>

-----------------------------------------------------------------------------
(* graphql-router.ts: contextFunction                                      *)

\* session tokens: a JWT signed with privateKey that carries user_id, one
\* that carries none, and one that jwt.verify rejects; "" is an absent token
SessionTokens == {"", "jwt:u1", "jwt:u2", "jwt:nouid", "jwt:bad"}
BearerHeaders == {"", "Bearer t1"}
ShareTokens == {"", "s1"}

\* jsonwebtoken verify(token, privateKey)
JwtVerify(token) ==
    [threw |-> token = "jwt:bad",
     user_id |-> IF token = "jwt:u1" THEN "u1"
                 ELSE IF token = "jwt:u2" THEN "u2" ELSE Undefined]

GraphQLError(message, code, status) ==
    [set |-> TRUE, message |-> message, code |-> code, status |-> status]
NoError == [set |-> FALSE, message |-> "", code |-> "", status |-> 0]

\* line 94
InvalidApiKey == GraphQLError("Invalid API Key provided.", "UNAUTHENTICATED", 401)
\* line 102
InvalidOrExpired ==
    GraphQLError("Authentication token is invalid or expired.", "UNAUTHENTICATED", 401)
\* line 106
FailedToValidate ==
    GraphQLError("Failed to validate share token.", "INTERNAL_SERVER_ERROR", 500)
\* line 110
InvalidShareToken ==
    GraphQLError("Invalid share token provided.", "UNAUTHENTICATED", 401)
\* line 115: an error that is not a GraphQLError is wrapped, without extensions
AuthenticationError == GraphQLError("Authentication error.", "", 0)

Context(userId, shareScopes, authError) ==
    [userId |-> userId, shareScopes |-> shareScopes, authError |-> authError]
EmptyContext == Context(Undefined, UndefinedScopes, NoError)

\* lines 88, 95, 104: the if / else-if chain over the credentials present
CredentialBranch(req) ==
    IF req.bearer # "" THEN "bearer"
    ELSE IF req.cookieToken # "" \/ req.headerToken # "" THEN "session"
    ELSE IF req.shareToken # "" THEN "share"
    ELSE "none"

\* the selection sets of the two operations sent to the identity service
\* (lines 90 and 105): only ValidateShareToken asks for __typename
SelectedFields(operation, type) ==
    IF operation = "ValidateApiToken"
    THEN IF type = "TokenUser" THEN {"id"}
         ELSE IF type = "Error" THEN {"code"} ELSE {}
    ELSE IF type = "ShareTokenDetails"
         THEN {"__typename", "id", "name", "scopes", "userId"}
         ELSE IF type = "Error" THEN {"__typename", "code"} ELSE {}

\* validationData?.__typename of the decoded reply: a GraphQL response holds
\* the fields the operation selected and no others
ValidationTypename(operation, reply) ==
    IF "__typename" \in SelectedFields(operation, reply.type)
    THEN reply.type ELSE Undefined

Reply(net, httpOk, body, type, id, userId, scopes) ==
    [net |-> net, httpOk |-> httpOk, body |-> body, type |-> type,
     id |-> id, userId |-> userId, scopes |-> scopes]
NoReply == Reply("none", FALSE, "none", "null", Undefined, Undefined, UndefinedScopes)

\* scope sets the identity service may attach to a share token
ReplyScopeSets ==
    { UndefinedScopes,
      Scopes(<<[queryName |-> "apiaries", hasRequiredArgs |-> FALSE,
                requiredArgs |-> <<>>]>>),
      Scopes(<<[queryName |-> "hive", hasRequiredArgs |-> TRUE,
                requiredArgs |-> <<Arg("id", Str("42"))>>]>>) }

\* replies that carry no object: the connection fails, the status is not OK,
\* the body is not JSON, or the field is null
EmptyReplies ==
    { Reply("error", FALSE, "none", "null", Undefined, Undefined, UndefinedScopes),
      Reply("ok", FALSE, "json", "null", Undefined, Undefined, UndefinedScopes),
      Reply("ok", FALSE, "garbage", "null", Undefined, Undefined, UndefinedScopes),
      Reply("ok", TRUE, "garbage", "null", Undefined, Undefined, UndefinedScopes),
      Reply("ok", TRUE, "json", "null", Undefined, Undefined, UndefinedScopes),
      Reply("ok", TRUE, "json", "Error", Undefined, Undefined, UndefinedScopes) }

\* what the identity service may answer to each operation
IdentityReplies(operation) ==
    EmptyReplies \cup
    IF operation = "ValidateApiToken"
    THEN {Reply("ok", TRUE, "json", "TokenUser", "u9", Undefined, UndefinedScopes)}
    ELSE {Reply("ok", TRUE, "json", "ShareTokenDetails", "st1", u, sc) :
            u \in {"u7", Undefined}, sc \in ReplyScopeSets}

\* lines 89-94
BearerContext(reply) ==
    IF reply.net = "error" \/ reply.body = "garbage"
    THEN Context(Undefined, UndefinedScopes, AuthenticationError)
    ELSE IF ValidationTypename("ValidateApiToken", reply) = "TokenUser"
         THEN Context(reply.id, UndefinedScopes, NoError)
         ELSE Context(Undefined, UndefinedScopes, InvalidApiKey)

\* a session branch that tries the token header when the cookie fails
SessionContextHeaderFallback(req) ==
    LET fromCookie == JwtVerify(req.cookieToken)
        fromHeader == JwtVerify(req.headerToken)
        decoded == IF req.cookieToken # ""
                      /\ ~fromCookie.threw /\ fromCookie.user_id # Undefined
                   THEN fromCookie ELSE fromHeader
    IN IF ~decoded.threw /\ decoded.user_id # Undefined
       THEN Context(decoded.user_id, UndefinedScopes, NoError)
       ELSE Context(Undefined, UndefinedScopes, InvalidOrExpired)

\* lines 96-103
SessionContext(req) ==
    LET token == IF req.cookieToken # "" THEN req.cookieToken ELSE req.headerToken
        decoded == JwtVerify(token)
    IN IF ~decoded.threw /\ decoded.user_id # Undefined
       THEN Context(decoded.user_id, UndefinedScopes, NoError)
       ELSE Context(Undefined, UndefinedScopes, InvalidOrExpired)

\* lines 105-110
ShareContext(reply) ==
    IF reply.net = "error"
    THEN Context(Undefined, UndefinedScopes, AuthenticationError)
    ELSE IF ~reply.httpOk
    THEN Context(Undefined, UndefinedScopes, FailedToValidate)
    ELSE IF reply.body = "garbage"
    THEN Context(Undefined, UndefinedScopes, AuthenticationError)
    ELSE IF ValidationTypename("ValidateShareToken", reply) = "ShareTokenDetails"
         THEN Context(reply.userId, reply.scopes, NoError)
         ELSE Context(Undefined, UndefinedScopes, InvalidShareToken)

\* lines 74-119
contextFunction(req, reply) ==
    LET branch == CredentialBranch(req)
    IN IF branch = "bearer" THEN BearerContext(reply)
       ELSE IF branch = "session" THEN SessionContext(req)
       ELSE IF branch = "share" THEN ShareContext(reply)
       ELSE EmptyContext

IdentityOperation(branch) ==
    IF branch = "bearer" THEN "ValidateApiToken" ELSE "ValidateShareToken"

-----------------------------------------------------------------------------
(* graphql-router.ts: the /graphql route; the dispatcher's headers         *)

\* lines 201-210: the middleware in front of Apollo logs and calls next()
ScopeCheckMiddleware(req) == "next"

\* a JavaScript value found at extensions.http.status: nothing, a string,
\* or a number; a number is NaN or a finite double, written as its integer
\* part (floor) and its tenths
JsStatus(t, nan, whole, tenths) ==
    [t |-> t, nan |-> nan, whole |-> whole, tenths |-> tenths]
MissingStatus == JsStatus("undefined", FALSE, 0, 0)
JsNumber(whole, tenths) == JsStatus("number", FALSE, whole, tenths)

\* a value passed to getStatusCodeFromError: whether it is an instance of
\* GraphQLError, what extensions.http is, what http.status is, and whether
\* it has a string message
ThrownValue(isGraphQLError, http, status, hasMessage) ==
    [isGraphQLError |-> isGraphQLError, http |-> http, status |-> status,
     hasMessage |-> hasMessage]

\* lines 33-46; status >= 400 and status < 600 are false for NaN, and a
\* finite status compares with an integer as its integer part does
getStatusCodeFromError(error) ==
    IF /\ error.isGraphQLError
       /\ error.http = "object"
       /\ error.status.t = "number"
       /\ ~error.status.nan /\ error.status.whole >= 400
       /\ ~error.status.nan /\ error.status.whole < 600
    THEN error.status
    ELSE JsNumber(500, 0)

\* the error object that contextFunction stored, as getStatusCodeFromError
\* sees it: its errors carry extensions.http.status or no extensions at all
ThrownGraphQLError(error) ==
    ThrownValue(error.set,
                IF error.status # 0 THEN "object" ELSE "missing",
                IF error.status # 0 THEN JsNumber(error.status, 0)
                ELSE MissingStatus,
                TRUE)

GatewayError(message, code) ==
    [message |-> message, code |-> code, status |-> 0,
     originalIsContextAuthError |-> FALSE]

\* lines 164-177
formatError(error) ==
    IF error.originalIsContextAuthError
    THEN [error EXCEPT !.status = 500]
    ELSE IF error.code = "FORBIDDEN"
         THEN [error EXCEPT !.status = 403]
         ELSE error

\* RemoteGraphQLDataSource.process, the headers it sets
DispatchHeaders(context) ==
    {<<"Content-Type", "application/json">>,
     <<"internal-router-signature", "a239vmwoeifworg">>}
    \cup (IF context.userId # Undefined
          THEN {<<"internal-userId", context.userId>>} ELSE {})

SubgraphOutcomes == {"data", "dataWithErrors", "non2xx", "networkError"}

\* errors of the GraphQL response after a sub-request with this outcome
ResponseErrors(outcome) ==
    IF outcome = "data" THEN <<>>
    ELSE IF outcome = "dataWithErrors"
         THEN <<formatError(GatewayError("subgraph error", "DOWNSTREAM_SERVICE_ERROR"))>>
         ELSE <<formatError(GatewayError("Downstream service failed",
                                         "INTERNAL_SERVER_ERROR"))>>

HttpResponse(status, errors) == [status |-> status, errors |-> errors]
NoResponse == HttpResponse(0, <<>>)

\* operations and variables a client sends
RequestDocuments ==
    { <<Operation("query", <<Field("hive")>>)>>,
      <<Operation("query", <<Field("hives")>>)>>,
      <<Operation("query", <<Field("apiaries")>>)>> }
RequestVariables ==
    { Variables(EmptyMap), Variables([k \in {"id"} |-> Str("42")]) }

Requests ==
    [bearer : BearerHeaders, cookieToken : SessionTokens,
     headerToken : SessionTokens, shareToken : ShareTokens,
     query : RequestDocuments, variables : RequestVariables]

NoRequest ==
    [bearer |-> "", cookieToken |-> "", headerToken |-> "", shareToken |-> "",
     query |-> <<Operation("query", <<Field("hive")>>)>>,
     variables |-> Variables(EmptyMap)]

InitRequest ==
    /\ reqPc = "idle"
    /\ request = NoRequest
    /\ identityReply = NoReply
    /\ authPaths = {}
    /\ contextData = EmptyContext
    /\ subgraphHeaders = {}
    /\ response = NoResponse

\* a POST /graphql arrives: the middleware passes it on and contextFunction
\* runs up to its await of the identity service, or to its end when no
\* remote validation is needed
ReceiveRequest ==
    /\ reqPc = "idle"
    /\ \E req \in Requests :
        /\ ScopeCheckMiddleware(req) = "next"
        /\ request' = req
        /\ LET branch == CredentialBranch(req)
           IN /\ authPaths' = IF branch = "none" THEN {} ELSE {branch}
              /\ IF branch \in {"bearer", "share"}
                 THEN /\ reqPc' = "awaitIdentity"
                      /\ UNCHANGED contextData
                 ELSE /\ reqPc' = "context"
                      /\ contextData' = contextFunction(req, NoReply)
    /\ UNCHANGED <<identityReply, subgraphHeaders, response>>
    /\ UNCHANGED <<managerVars, gateVars, dispatchVars, handlerVars, loggerVars>>

\* the identity service answers and contextFunction returns
IdentityServiceReplies(reply) ==
    /\ reqPc = "awaitIdentity"
    /\ reply \in IdentityReplies(IdentityOperation(CredentialBranch(request)))
    /\ identityReply' = reply
    /\ contextData' = contextFunction(request, reply)
    /\ reqPc' = "context"
    /\ UNCHANGED <<request, authPaths, subgraphHeaders, response>>
    /\ UNCHANGED <<managerVars, gateVars, dispatchVars, handlerVars, loggerVars>>

\* Apollo Server executes the operation with the context: the gateway plans
\* it and the dispatcher posts the sub-request
GatewayDispatches ==
    /\ reqPc = "context"
    /\ subgraphHeaders' = {DispatchHeaders(contextData)}
    /\ reqPc' = "awaitSubgraph"
    /\ UNCHANGED <<request, identityReply, authPaths, contextData, response>>
    /\ UNCHANGED <<managerVars, gateVars, dispatchVars, handlerVars, loggerVars>>

\* the subgraph answers and the response is sent; no handler of the route
\* sets a status, so it is Apollo Server's 200
SubgraphReplies(outcome) ==
    /\ reqPc = "awaitSubgraph"
    /\ response' = HttpResponse(200, ResponseErrors(outcome))
    /\ reqPc' = "responded"
    /\ UNCHANGED <<request, identityReply, authPaths, contextData, subgraphHeaders>>
    /\ UNCHANGED <<managerVars, gateVars, dispatchVars, handlerVars, loggerVars>>

\* the server is ready for the next request
RequestDone ==
    /\ reqPc = "responded"
    /\ reqPc' = "idle"
    /\ request' = NoRequest
    /\ identityReply' = NoReply
    /\ authPaths' = {}
    /\ contextData' = EmptyContext
    /\ subgraphHeaders' = {}
    /\ response' = NoResponse
    /\ UNCHANGED <<managerVars, gateVars, dispatchVars, handlerVars, loggerVars>>

-----------------------------------------------------------------------------
(* graphql-router.ts: the error-handling middleware                        *)

\* what may reach the middleware as err: http.status is nothing, a string,
\* NaN or a number around the bounds of the range, and it exists only when
\* extensions.http is an object
ThrownValues ==
    LET statusValues ==
            {MissingStatus, JsStatus("string", FALSE, 0, 0),
             JsStatus("number", TRUE, 0, 0)}
            \cup {JsNumber(w, t) :
                    w \in {0, 200, 399, 400, 404, 500, 599, 600},
                    t \in {0, 5}}
    IN {ThrownValue(g, "object", st, m) :
           g \in BOOLEAN, st \in statusValues, m \in BOOLEAN}
       \cup {ThrownValue(g, h, MissingStatus, m) :
               g \in BOOLEAN, h \in {"missing", "null"}, m \in BOOLEAN}

ErrInput(error, headersSent) == [error |-> error, headersSent |-> headersSent]

ErrResponse(sent, passedOn, status, message) ==
    [sent |-> sent, passedOn |-> passedOn, status |-> status,
     message |-> message]

\* no error has been raised and nothing has been answered
InitHandler ==
    /\ errPc = "idle"
    /\ errInput = ErrInput(ThrownValue(FALSE, "missing", MissingStatus, FALSE),
                           FALSE)
    /\ errResponse = ErrResponse(FALSE, FALSE, MissingStatus, "")

\* a handler of the application passes err to next(err)
ErrorRaised ==
    /\ errPc = "idle"
    /\ errPc' = "raised"
    /\ \E error \in ThrownValues, headersSent \in BOOLEAN :
           errInput' = ErrInput(error, headersSent)
    /\ UNCHANGED errResponse
    /\ UNCHANGED <<managerVars, requestVars, gateVars, dispatchVars, loggerVars>>

\* lines 241-247
ErrorHandled ==
    /\ errPc = "raised"
    /\ errPc' = "handled"
    /\ errResponse' =
          IF errInput.headersSent
          THEN ErrResponse(FALSE, TRUE, MissingStatus, "")
          ELSE ErrResponse(TRUE, FALSE, getStatusCodeFromError(errInput.error),
                           IF errInput.error.hasMessage THEN "err.message"
                           ELSE "Internal Server Error")
    /\ UNCHANGED errInput
    /\ UNCHANGED <<managerVars, requestVars, gateVars, dispatchVars, loggerVars>>

\* the server is ready for the next error
HandlerReset ==
    /\ errPc = "handled"
    /\ errPc' = "idle"
    /\ errInput' = ErrInput(ThrownValue(FALSE, "missing", MissingStatus, FALSE),
                            FALSE)
    /\ errResponse' = ErrResponse(FALSE, FALSE, MissingStatus, "")
    /\ UNCHANGED <<managerVars, requestVars, gateVars, dispatchVars, loggerVars>>

-----------------------------------------------------------------------------
(* request-logger.ts: the query-log plugin                                 *)

LogRequests == 1..MaxLogRequests

\* line 21: let producer: Producer | undefined
UndefinedProducer == 0

\* a connectToKafka whose catch leaves the producer in place
ProducerAfterFailedConnectKept(current) == current

\* lines 45-49: the catch resets the module variable
ProducerAfterFailedConnect(current) == UndefinedProducer

InitLogger ==
    /\ producer = UndefinedProducer
    /\ producersCreated = 0
    /\ connected = {}
    /\ logPc = [r \in LogRequests |-> "idle"]
    /\ logProducer = [r \in LogRequests |-> UndefinedProducer]
    /\ logResult = [r \in LogRequests |-> "none"]

\* lines 54-61 with 24-44, or 54-59 with 69-113: requestDidStart runs to its
\* first await. Without a producer it calls connectToKafka, which creates
\* one, assigns it to the module variable and awaits connect(); creating it
\* may throw, which the catch of line 45 absorbs. With a producer it builds
\* the message and awaits send()
RequestDidStart(r) ==
    /\ logPc[r] = "idle"
    /\ IF producer = UndefinedProducer
       THEN /\ producersCreated < MaxProducers
            /\ \E created \in BOOLEAN :
                 IF created
                 THEN /\ producersCreated' = producersCreated + 1
                      /\ producer' = producersCreated + 1
                      /\ logProducer' = [logProducer EXCEPT
                                            ![r] = producersCreated + 1]
                      /\ logPc' = [logPc EXCEPT ![r] = "awaitConnect"]
                 ELSE /\ producer' = ProducerAfterFailedConnect(producer)
                      /\ logPc' = [logPc EXCEPT ![r] = "connectReturned"]
                      /\ UNCHANGED <<producersCreated, logProducer>>
       ELSE /\ logProducer' = [logProducer EXCEPT ![r] = producer]
            /\ logPc' = [logPc EXCEPT ![r] = "awaitSend"]
            /\ UNCHANGED <<producer, producersCreated>>
    /\ UNCHANGED <<connected, logResult>>
    /\ UNCHANGED <<managerVars, requestVars, gateVars, dispatchVars, handlerVars>>

\* lines 44-50: connect() settles and connectToKafka returns
ConnectSettles(r, ok) ==
    /\ logPc[r] = "awaitConnect"
    /\ logPc' = [logPc EXCEPT ![r] = "connectReturned"]
    /\ IF ok
       THEN /\ connected' = connected \cup {logProducer[r]}
            /\ UNCHANGED producer
       ELSE /\ producer' = ProducerAfterFailedConnect(producer)
            /\ UNCHANGED connected
    /\ UNCHANGED <<producersCreated, logProducer, logResult>>
    /\ UNCHANGED <<managerVars, requestVars, gateVars, dispatchVars, handlerVars>>

\* lines 62-113: requestDidStart resumes after connectToKafka; it returns
\* when there still is no producer, otherwise it takes the producer of the
\* module variable and awaits send()
ConnectReturned(r) ==
    /\ logPc[r] = "connectReturned"
    /\ IF producer = UndefinedProducer
       THEN /\ logPc' = [logPc EXCEPT ![r] = "done"]
            /\ logResult' = [logResult EXCEPT ![r] = "notLogged"]
            /\ UNCHANGED logProducer
       ELSE /\ logPc' = [logPc EXCEPT ![r] = "awaitSend"]
            /\ logProducer' = [logProducer EXCEPT ![r] = producer]
            /\ UNCHANGED logResult
    /\ UNCHANGED <<producer, producersCreated, connected>>
    /\ UNCHANGED <<managerVars, requestVars, gateVars, dispatchVars, handlerVars>>

\* lines 113-125: send() settles; a producer that is not connected rejects
SendSettles(r, ok) ==
    /\ logPc[r] = "awaitSend"
    /\ ok => logProducer[r] \in connected
    /\ logPc' = [logPc EXCEPT ![r] = "done"]
    /\ logResult' = [logResult EXCEPT ![r] = IF ok THEN "sent" ELSE "sendFailed"]
    /\ UNCHANGED <<producer, producersCreated, connected, logProducer>>
    /\ UNCHANGED <<managerVars, requestVars, gateVars, dispatchVars, handlerVars>>

\* the request is over and the plugin serves the next one
LogRequestEnds(r) ==
    /\ logPc[r] = "done"
    /\ logPc' = [logPc EXCEPT ![r] = "idle"]
    /\ logProducer' = [logProducer EXCEPT ![r] = UndefinedProducer]
    /\ logResult' = [logResult EXCEPT ![r] = "none"]
    /\ UNCHANGED <<producer, producersCreated, connected>>
    /\ UNCHANGED <<managerVars, requestVars, gateVars, dispatchVars, handlerVars>>

-----------------------------------------------------------------------------
(* remote-data-source.ts (src/unnamed/part_003): RemoteGraphQLDataSource   *)

\* the subgraphs the gateway built a data source for (constructor, 13-16)
DispatchServices ==
    {[name |-> n, url |-> ServiceUrl("host")] : n \in ServiceNames}

\* line 36
TargetUrl(service) == Append(service.url, "/graphql")

\* headers of the client's HTTP request that is being served
ClientHeaderSets ==
    { {},
      {<<"Authorization", "Bearer t1">>},
      {<<"cookie", "token=jwt:u1">>, <<"x-forwarded-for", "10.0.0.1">>} }

\* headers already attached to request.http of the planned sub-request
AttachedHeaderSets ==
    { {}, {<<"Authorization", "Bearer t1">>} }

\* the sub-request the gateway hands to process: the query planner builds it
\* with an http part and without a context property
SubRequest(attached) ==
    [http |-> [headers |-> attached], context |-> Undefined]

\* contexts contextFunction can return
DispatchContexts ==
    { EmptyContext,
      Context("u1", UndefinedScopes, NoError),
      Context("u7", Scopes(<<[queryName |-> "apiaries", hasRequiredArgs |-> FALSE,
                              requiredArgs |-> <<>>]>>), NoError),
      Context(Undefined, UndefinedScopes, InvalidApiKey) }

ProcessCalls ==
    [service : DispatchServices, clientHeaders : ClientHeaderSets,
     request : {SubRequest(a) : a \in AttachedHeaderSets},
     context : DispatchContexts]

\* line 29: requestContext ?? context
EffectiveContext(subRequest, context) ==
    IF subRequest.context # Undefined THEN subRequest.context ELSE context

\* headers that start from the ones attached to request.http
ProcessHeadersFromRequest(subRequest, context) ==
    subRequest.http.headers
    \cup DispatchHeaders(EffectiveContext(subRequest, context))

\* lines 38-50: a new Headers object, filled from the effective context
ProcessHeaders(subRequest, context) ==
    DispatchHeaders(EffectiveContext(subRequest, context))

\* the body of the subgraph's answer: not JSON at all, the JSON value null,
\* or a JSON object with or without data, errors and extensions
Body(kind, data, errors, extensions) ==
    [kind |-> kind, data |-> data, errors |-> errors, extensions |-> extensions]
NoBody == Body("none", Undefined, Undefined, Undefined)
GarbageBody == Body("garbage", Undefined, Undefined, Undefined)
NullBody == Body("null", Undefined, Undefined, Undefined)
BodyData == {Undefined, "{hive}"}
BodyErrors == {Undefined, "[]", "[e1]"}
BodyExtensions == {Undefined, "{ftv1}"}
ObjectBodies ==
    {Body("object", d, e, x) : d \in BodyData, e \in BodyErrors,
                               x \in BodyExtensions}

\* what fetch(httpRequest) may settle with: the connection fails, the
\* subgraph answers with some status, its body is JSON or not
FetchOutcome(net, status, body) == [net |-> net, status |-> status, body |-> body]
FetchOutcomes ==
    {FetchOutcome("error", 0, NoBody)}
    \cup {FetchOutcome("ok", 200, body) :
            body \in ObjectBodies \cup {GarbageBody, NullBody}}
    \cup { FetchOutcome("ok", 201, Body("object", "{hive}", "[e1]", "{ftv1}")),
           FetchOutcome("ok", 404, GarbageBody),
           FetchOutcome("ok", 500, Body("object", "{hive}", Undefined, Undefined)) }

\* httpResponse.ok
ResponseOk(status) == status >= 200 /\ status < 300

NoFields == [data |-> Undefined, errors |-> Undefined, extensions |-> Undefined]

\* a result that keeps the errors only when there is no data
ResponseFieldsWithoutPartialErrors(responseBody) ==
    [data |-> responseBody.data,
     errors |-> IF responseBody.data # Undefined
                THEN Undefined ELSE responseBody.errors,
     extensions |-> responseBody.extensions]

\* lines 89-93: the three fields are copied from the decoded body
ResponseFields(responseBody) ==
    [data |-> responseBody.data,
     errors |-> responseBody.errors,
     extensions |-> responseBody.extensions]

ProcessReturn(threw, message, fields) ==
    [threw |-> threw, message |-> message, data |-> fields.data,
     errors |-> fields.errors, extensions |-> fields.extensions]

\* lines 73-97: the message of the error thrown is the sequence of the
\* strings it is put together from
ProcessOutcome(service, outcome) ==
    IF outcome.net = "error"
    THEN \* fetch rejects; the catch of line 94 logs and rethrows the same error
         ProcessReturn(TRUE, <<"request to ">> \o TargetUrl(service) \o <<" failed">>,
                       NoFields)
    ELSE IF ~ResponseOk(outcome.status)
    THEN ProcessReturn(TRUE, <<"Downstream service ", service.name,
                               " responded with status ",
                               ToString(outcome.status)>>,
                       NoFields)
    ELSE IF outcome.body.kind = "garbage"
    THEN \* httpResponse.json() rejects
         ProcessReturn(TRUE, <<"Unexpected token in JSON">>, NoFields)
    ELSE IF outcome.body.kind = "null"
    THEN \* line 85 reads a property of null
         ProcessReturn(TRUE, <<"Cannot read properties of null">>, NoFields)
    ELSE ProcessReturn(FALSE, <<>>, ResponseFields(outcome.body))

DispatchCall(input, headers, url) ==
    [sent |-> TRUE, input |-> input, headers |-> headers, url |-> url]
NoDispatchCall ==
    [sent |-> FALSE,
     input |-> [service |-> [name |-> "A", url |-> ServiceUrl("host")],
                clientHeaders |-> {}, request |-> SubRequest({}),
                context |-> EmptyContext],
     headers |-> {}, url |-> <<>>]

DispatchResult(outcome, return) == [outcome |-> outcome, return |-> return]
NoDispatchResult ==
    DispatchResult(FetchOutcome("none", 0, NoBody),
                   ProcessReturn(FALSE, <<>>, NoFields))

InitDispatch ==
    /\ dispPc = "idle"
    /\ dispCall = NoDispatchCall
    /\ dispResult = NoDispatchResult
    /\ prevCall = NoDispatchCall

\* lines 19-74: process builds the HTTP request and awaits fetch
ProcessCalled ==
    /\ dispPc = "idle"
    /\ dispPc' = "awaitFetch"
    /\ \E input \in ProcessCalls :
        dispCall' = DispatchCall(input,
                                 ProcessHeaders(input.request, input.context),
                                 TargetUrl(input.service))
    /\ UNCHANGED <<dispResult, prevCall>>
    /\ UNCHANGED <<managerVars, requestVars, gateVars, handlerVars, loggerVars>>

\* lines 74-97: fetch settles and process returns or throws
FetchSettles(outcome) ==
    /\ dispPc = "awaitFetch"
    /\ dispPc' = "settled"
    /\ dispResult' = DispatchResult(outcome,
                                    ProcessOutcome(dispCall.input.service, outcome))
    /\ UNCHANGED <<dispCall, prevCall>>
    /\ UNCHANGED <<managerVars, requestVars, gateVars, handlerVars, loggerVars>>

\* the data source is ready for the next sub-request
ProcessDone ==
    /\ dispPc = "settled"
    /\ dispPc' = "idle"
    /\ prevCall' = dispCall
    /\ dispCall' = NoDispatchCall
    /\ dispResult' = NoDispatchResult
    /\ UNCHANGED <<managerVars, requestVars, gateVars, handlerVars, loggerVars>>

-----------------------------------------------------------------------------
(* Observations kept for the properties                                    *)

\* some entry of the snapshot has type_defs different from the cached value
SomeTypeDefsDiffer(cache, fetch) ==
    /\ fetch.ok
    /\ \E i \in 1..Len(fetch.data) :
           fetch.data[i].type_defs # cache[fetch.data[i].name]

\* what one build saw and produced
BuildRecord(cache, fetch, previous) ==
    LET b == buildSupergraph(cache, fetch)
    IN [threw |-> b.threw,
        supergraphSdl |-> b.supergraphSdl,
        schemaChanged |-> b.schemaChanged,
        registryChanged |-> b.registryChanged,
        composeCalled |-> b.composeCalled,
        composerInput |-> b.composerInput,
        usable |-> b.usable,
        fetchOk |-> fetch.ok,
        sameAsPrev |-> fetch.ok /\ previous.ok /\ fetch.data = previous.data,
        differs |-> SomeTypeDefsDiffer(cache, fetch),
        composeErrors |-> b.composeErrors]

NoBuild ==
    [threw |-> FALSE, supergraphSdl |-> NoSdl, schemaChanged |-> FALSE,
     registryChanged |-> FALSE, composeCalled |-> FALSE,
     composerInput |-> <<>>, usable |-> 0, fetchOk |-> FALSE, sameAsPrev |-> FALSE, differs |-> FALSE,
     composeErrors |-> FALSE]

IdleTask == [pc |-> "none", build |-> NoBuild]

CycleRecord(kind, build, calls, stopped, before, updateThrew, rearmed) ==
    [kind |-> kind, build |-> build, publishCalls |-> calls,
     stoppedAtPublish |-> stopped, sdlBefore |-> before,
     updateThrew |-> updateThrew, rearmed |-> rearmed]

NoCycle == CycleRecord("none", NoBuild, 0, FALSE, NoSdl, FALSE, FALSE)

-----------------------------------------------------------------------------
(* The manager's operations                                                *)

InitManager ==
    /\ pollIntervalInMs \in PollIntervals
    /\ serviceSdlCache = [n \in ServiceNames |-> Undefined]
    /\ state = "initialized"
    /\ update = FALSE
    /\ timerRef = 0
    /\ timers = {}
    /\ pollTask = [t \in TimerIds |-> IdleTask]
    /\ initAwait = 0
    /\ initCalls = 0
    /\ cleanupReturned = FALSE
    /\ cleanupCalls = 0
    /\ gatewaySdl = NoSdl
    /\ lastFetch = NoFetch
    /\ lastCycle = NoCycle

\* supergraph.ts:68-70, initialize up to its await of the first build; the
\* gateway calls it at most maxCalls times
InitializeUpTo(maxCalls) ==
    /\ initCalls < maxCalls
    /\ initCalls' = initCalls + 1
    /\ update' = TRUE
    /\ initAwait' = initAwait + 1
    /\ UNCHANGED <<cleanupCalls, pollIntervalInMs, serviceSdlCache, state, timerRef, timers,
                   pollTask, cleanupReturned, gatewaySdl, lastFetch, lastCycle>>
    /\ UNCHANGED <<requestVars, gateVars, dispatchVars, handlerVars, loggerVars>>

Initialize == InitializeUpTo(MaxInitCalls)

\* supergraph.ts:70-88 with 113-129: the registry answers with one of
\* fetches, the first build completes, beginPolling arms the first timer and
\* initialize returns the SDL and the cleanup function; a throwing build
\* rejects initialize
InitializeResumesWith(fetches) ==
    /\ initAwait > 0
    /\ initAwait' = initAwait - 1
    /\ \E fetch \in fetches :
        LET b == BuildRecord(serviceSdlCache, fetch, lastFetch)
            begin == ~b.threw /\ ShouldBeginPolling(pollIntervalInMs, state)
        IN /\ serviceSdlCache' = buildSupergraph(serviceSdlCache, fetch).serviceSdlCache
           /\ lastFetch' = fetch
           /\ lastCycle' = CycleRecord("init", b, 0, FALSE, gatewaySdl, FALSE, begin)
           /\ IF b.threw
              THEN UNCHANGED <<state, timers, timerRef, gatewaySdl, cleanupReturned>>
              ELSE /\ state' = IF begin THEN "polling" ELSE state
                   /\ timers' = IF begin THEN PollTimers ELSE timers
                   /\ timerRef' = IF begin THEN NewTimerId ELSE timerRef
                   /\ gatewaySdl' = b.supergraphSdl
                   /\ cleanupReturned' = TRUE
    /\ UNCHANGED <<cleanupCalls, pollIntervalInMs, update, pollTask, initCalls>>
    /\ UNCHANGED <<requestVars, gateVars, dispatchVars, handlerVars, loggerVars>>

InitializeResumes == InitializeResumesWith(FetchResults)

\* a cleanup that drops the reference and leaves the timeout armed
ClearedTimersKeepsTimeout(ref, pending) == pending

\* supergraph.ts:81-84: clearTimeout(this.timerRef) when there is one
ClearedTimers(ref, pending) ==
    IF ref # 0 THEN pending \ {ref} ELSE pending

\* supergraph.ts:78-86; the gateway calls it at most maxCalls times
CleanupUpTo(maxCalls) ==
    /\ cleanupReturned
    /\ cleanupCalls < maxCalls
    /\ cleanupCalls' = cleanupCalls + 1
    /\ state' = "stopped"
    /\ timers' = ClearedTimers(timerRef, timers)
    /\ timerRef' = 0
    /\ UNCHANGED <<pollIntervalInMs, serviceSdlCache, update, pollTask, initAwait,
                   initCalls, cleanupReturned, gatewaySdl, lastFetch, lastCycle>>
    /\ UNCHANGED <<requestVars, gateVars, dispatchVars, handlerVars, loggerVars>>

Cleanup == CleanupUpTo(MaxCleanupCalls)

\* supergraph.ts:129-138: the timeout fires; the callback leaves when the
\* phase is not polling, otherwise it starts a build and awaits the registry
TimerFires(t) ==
    /\ t \in timers
    /\ timers' = timers \ {t}
    /\ IF state # "polling"
       THEN /\ timerRef' = 0
            /\ UNCHANGED pollTask
       ELSE /\ pollTask' = [pollTask EXCEPT ![t] = [pc |-> "awaitRegistry",
                                                     build |-> NoBuild]]
            /\ UNCHANGED timerRef
    /\ UNCHANGED <<cleanupCalls, pollIntervalInMs, serviceSdlCache, state, update, initAwait,
                   initCalls, cleanupReturned, gatewaySdl, lastFetch, lastCycle>>
    /\ UNCHANGED <<requestVars, gateVars, dispatchVars, handlerVars, loggerVars>>

\* supergraph.ts:138 with 90-111: the registry answers with one of fetches
\* and buildSupergraph runs to its result (or its throw)
RegistryRepliesWith(t, fetches) ==
    /\ pollTask[t].pc = "awaitRegistry"
    /\ \E fetch \in fetches :
        /\ pollTask' = [pollTask EXCEPT ![t] =
                            [pc |-> "built",
                             build |-> BuildRecord(serviceSdlCache, fetch, lastFetch)]]
        /\ serviceSdlCache' = buildSupergraph(serviceSdlCache, fetch).serviceSdlCache
        /\ lastFetch' = fetch
    /\ UNCHANGED <<cleanupCalls, pollIntervalInMs, state, update, timerRef, timers, initAwait,
                   initCalls, cleanupReturned, gatewaySdl, lastCycle>>
    /\ UNCHANGED <<requestVars, gateVars, dispatchVars, handlerVars, loggerVars>>

RegistryReplies(t) == RegistryRepliesWith(t, FetchResults)

\* supergraph.ts:139-160: the callback resumes after the await, calls update
\* when the schema changed (the gateway's callback may throw, which the catch
\* of line 148 absorbs), and re-arms the timer while still polling
PollContinues(t) ==
    /\ pollTask[t].pc = "built"
    /\ \E updateThrows \in BOOLEAN :
        LET b == pollTask[t].build
            publish == ~b.threw /\ ShouldUpdate(b.schemaChanged, update)
            threw == b.threw \/ (publish /\ updateThrows)
            rearm == RearmAfterCycle(state, threw)
        IN /\ publish \/ ~updateThrows
           /\ gatewaySdl' = IF publish THEN b.supergraphSdl ELSE gatewaySdl
           /\ lastCycle' = CycleRecord("poll", b, IF publish THEN 1 ELSE 0,
                                       publish /\ state = "stopped",
                                       gatewaySdl, publish /\ updateThrows, rearm)
           /\ IF rearm
              THEN /\ timers' = PollTimers
                   /\ timerRef' = NewTimerId
              ELSE /\ timerRef' = IF state = "polling" THEN timerRef ELSE 0
                   /\ UNCHANGED timers
    /\ pollTask' = [pollTask EXCEPT ![t] = IdleTask]
    /\ UNCHANGED <<cleanupCalls, pollIntervalInMs, serviceSdlCache, state, update, initAwait,
                   initCalls, cleanupReturned, lastFetch>>
    /\ UNCHANGED <<requestVars, gateVars, dispatchVars, handlerVars, loggerVars>>

Init ==
    /\ InitManager
    /\ InitRequest
    /\ InitGate
    /\ InitDispatch
    /\ InitHandler
    /\ InitLogger

Next ==
    \/ Initialize
    \/ InitializeResumes
    \/ Cleanup
    \/ \E t \in TimerIds : TimerFires(t)
    \/ \E t \in TimerIds : RegistryReplies(t)
    \/ \E t \in TimerIds : PollContinues(t)

Spec == Init /\ [][Next]_vars

NextRequest ==
    \/ ReceiveRequest
    \/ \E reply \in IdentityReplies("ValidateApiToken")
                   \cup IdentityReplies("ValidateShareToken") :
           IdentityServiceReplies(reply)
    \/ GatewayDispatches
    \/ \E outcome \in SubgraphOutcomes : SubgraphReplies(outcome)
    \/ RequestDone

SpecRequest == Init /\ [][NextRequest]_vars

NextGate ==
    \/ GateCalled
    \/ GateReturns
    \/ GateReset

SpecGate == Init /\ [][NextGate]_vars

NextDispatch ==
    \/ ProcessCalled
    \/ \E outcome \in FetchOutcomes : FetchSettles(outcome)
    \/ ProcessDone

SpecDispatch == Init /\ [][NextDispatch]_vars

NextErrorHandler ==
    \/ ErrorRaised
    \/ ErrorHandled
    \/ HandlerReset

SpecErrorHandler == Init /\ [][NextErrorHandler]_vars

NextLogger ==
    \/ \E r \in LogRequests : RequestDidStart(r)
    \/ \E r \in LogRequests, ok \in BOOLEAN : ConnectSettles(r, ok)
    \/ \E r \in LogRequests : ConnectReturned(r)
    \/ \E r \in LogRequests, ok \in BOOLEAN : SendSettles(r, ok)
    \/ \E r \in LogRequests : LogRequestEnds(r)

SpecLogger == Init /\ [][NextLogger]_vars

\* the manager through several initialize calls, against a registry with few
\* distinct answers
NextLifecycle ==
    \/ InitializeUpTo(MaxLifecycleInitCalls)
    \/ InitializeResumesWith(LifecycleFetchResults)
    \/ CleanupUpTo(MaxLifecycleCleanupCalls)
    \/ \E t \in TimerIds : TimerFires(t)
    \/ \E t \in TimerIds : RegistryRepliesWith(t, LifecycleFetchResults)
    \/ \E t \in TimerIds : PollContinues(t)

SpecLifecycle == Init /\ [][NextLifecycle]_vars

\* the event loop runs every continuation that is ready: the registry
\* request of a cycle settles, and the callback resumes after its await
SpecLifecycleFair ==
    /\ SpecLifecycle
    /\ \A t \in TimerIds :
          /\ WF_vars(RegistryRepliesWith(t, LifecycleFetchResults))
          /\ WF_vars(PollContinues(t))

-----------------------------------------------------------------------------
(* Properties of the Supergraph Manager, checked under Spec                *)

\* C1: once the cleanup function has been called (the phase is stopped), the
\* update callback is not invoked again, whatever the interleaving of cleanup
\* with the poll timer callback
C1_NoPublishAfterCleanup ==
    ~lastCycle.stoppedAtPublish

\* C2: a poll cycle whose registry fetch failed or gave no usable descriptor,
\* after a build that produced a supergraph, does not invoke update and leaves
\* the SDL seen by requests as it was
C2_FailedCycleKeepsSdl ==
    (/\ lastCycle.kind = "poll"
     /\ lastCycle.build.usable = 0
     /\ lastCycle.sdlBefore # NoSdl)
    => (lastCycle.publishCalls = 0 /\ gatewaySdl = lastCycle.sdlBefore)

\* C3: a tick whose descriptor list is identical to the list of the build
\* before it (the empty list included) does not invoke update
C3_IdenticalSnapshotNoPublish ==
    (lastCycle.kind = "poll" /\ lastCycle.build.sameAsPrev)
    => lastCycle.publishCalls = 0

\* C4 as stated: every build cycle, the initial one included, in which some
\* type_defs differs from the cache and composition succeeds invokes update
\* exactly once
C4_EveryChangedCyclePublishesOnce ==
    (/\ lastCycle.kind \in {"init", "poll"}
     /\ lastCycle.build.differs
     /\ ~lastCycle.build.threw)
    => lastCycle.publishCalls = 1

\* C4 amended: a poll cycle in which some type_defs differs from the cache
\* and composition succeeds invokes update exactly once, with the newly
\* composed SDL; the initial build invokes update zero times and hands its
\* SDL to the gateway as the value initialize returns
C4_ChangedPollCyclePublishesOnce ==
    /\ (/\ lastCycle.kind = "poll"
        /\ lastCycle.build.differs
        /\ ~lastCycle.build.threw)
       => (/\ lastCycle.publishCalls = 1
           /\ gatewaySdl = lastCycle.build.supergraphSdl)
    /\ lastCycle.kind = "init"
       => (/\ lastCycle.publishCalls = 0
           /\ ~lastCycle.build.threw => gatewaySdl = lastCycle.build.supergraphSdl)

\* C4 witness: a tick brought a changed subgraph, composed, and published
C4_Witness ==
    /\ lastCycle.kind = "poll"
    /\ lastCycle.build.differs
    /\ ~lastCycle.build.threw
    /\ lastCycle.publishCalls = 1
    /\ gatewaySdl # lastCycle.sdlBefore

\* C5: update is invoked only with an SDL that differs from the one the
\* gateway already holds, in a cycle where schemaChanged is true and
\* composition succeeded
C5_PublishIsEdgeTriggered ==
    lastCycle.publishCalls > 0
    => (/\ gatewaySdl # lastCycle.sdlBefore
        /\ lastCycle.build.schemaChanged
        /\ ~lastCycle.build.threw)

-----------------------------------------------------------------------------
(* Properties of the manager's lifecycle, checked under SpecLifecycle      *)

CyclesInFlight == {t \in TimerIds : pollTask[t].pc # "none"}

\* C13 as stated: the phase changes only from initialized to polling (inside
\* initialize, after a successful first build, with a positive interval) or
\* from polling to stopped; a stopped manager arms no timer
C13_OnlyLegalTransitions ==
    [][/\ state' # state
          => \/ /\ state = "initialized" /\ state' = "polling"
                /\ initAwait' < initAwait
                /\ ~lastCycle'.build.threw
                /\ pollIntervalInMs # 0
             \/ state = "polling" /\ state' = "stopped"
       /\ state = "stopped" => timers' \subseteq timers]_vars

\* C13 amended: as above, and cleanup also takes a manager that never began
\* polling (interval 0) from initialized to stopped
C13_LegalTransitionsWithIdleStop ==
    [][/\ state' # state
          => \/ /\ state = "initialized" /\ state' = "polling"
                /\ initAwait' < initAwait
                /\ ~lastCycle'.build.threw
                /\ pollIntervalInMs # 0
             \/ state = "polling" /\ state' = "stopped"
             \/ /\ state = "initialized" /\ state' = "stopped"
                /\ pollIntervalInMs = 0
       /\ state = "stopped" => timers' \subseteq timers]_vars

\* C13 witness: a second initialize completed its build on a manager that
\* had polled and was stopped, and polling did not begin again
C13_Witness ==
    /\ state = "stopped"
    /\ pollIntervalInMs # 0
    /\ initCalls >= 2
    /\ initAwait = 0
    /\ lastCycle.kind = "init"
    /\ ~lastCycle.build.threw
    /\ ~lastCycle.rearmed
    /\ timers = {}

\* C14: at most one poll cycle is executing, at most one poll timer is
\* pending, and no timer is pending while a cycle executes, however many
\* times initialize is called
C14_SinglePollLoop ==
    /\ Cardinality(timers) + Cardinality(CyclesInFlight) <= 1
    /\ timers \subseteq {timerRef}

\* C14 witness: a second initialize finished while a poll cycle was awaiting
\* the registry
C14_Witness ==
    /\ initCalls >= 2
    /\ initAwait = 0
    /\ lastCycle.kind = "init"
    /\ ~lastCycle.build.threw
    /\ state = "polling"
    /\ Cardinality(CyclesInFlight) = 1

\* C15, checked under SpecLifecycleFair: every poll cycle that started comes
\* to its end, and at its end the next timer is armed if the phase is polling
C15_NextTickScheduled ==
    \A t \in TimerIds :
        (pollTask[t].pc = "awaitRegistry")
        ~> (pollTask[t].pc = "none" /\ (state = "polling" => timerRef \in timers))

\* C15 witness: a cycle whose build threw, or whose update call threw, ended
\* with the next timer armed
C15_Witness ==
    /\ lastCycle.kind = "poll"
    /\ lastCycle.build.threw \/ lastCycle.updateThrew
    /\ lastCycle.rearmed
    /\ state = "polling"
    /\ timerRef \in timers

\* C26: every call of cleanup leaves the phase stopped, no timer pending and
\* no timer referenced, and a call after the first, in whatever phase of a
\* poll cycle it comes, changes nothing of the manager
C26_CleanupIsIdempotent ==
    [][cleanupCalls' # cleanupCalls
          => /\ state' = "stopped"
             /\ timers' = {}
             /\ timerRef' = 0
             /\ cleanupCalls >= 1
                => UNCHANGED <<pollIntervalInMs, serviceSdlCache, state, update,
                               timerRef, timers, pollTask, initAwait, initCalls,
                               cleanupReturned, gatewaySdl, lastFetch,
                               lastCycle>>]_vars

\* C26 witness: cleanup was called a second time while a poll cycle that
\* had started before the first call was still awaiting the registry
C26_Witness ==
    /\ cleanupCalls >= 2
    /\ state = "stopped"
    /\ timers = {}
    /\ timerRef = 0
    /\ \E t \in TimerIds : pollTask[t].pc = "awaitRegistry"

\* C27: while the phase is stopped no poll timer is armed and no poll cycle
\* (registry fetch, publish) starts: a timer callback that finds the phase
\* stopped leaves at once, and a cycle that ends after the phase became
\* stopped does not schedule another tick
C27_StoppedLoopEnds ==
    [][state = "stopped"
          => /\ timers' \subseteq timers
             /\ CyclesInFlight' \subseteq CyclesInFlight
             /\ \A t \in TimerIds :
                    pollTask'[t].pc = "awaitRegistry"
                    => pollTask[t].pc = "awaitRegistry"]_vars

\* C27 witness: a poll cycle came to its end with the phase stopped and
\* armed no timer
C27_Witness ==
    /\ state = "stopped"
    /\ lastCycle.kind = "poll"
    /\ ~lastCycle.build.threw
    /\ ~lastCycle.updateThrew
    /\ ~lastCycle.rearmed
    /\ CyclesInFlight = {}
    /\ timers = {}

-----------------------------------------------------------------------------
(* Further properties of the Supergraph Manager, checked under Spec        *)

\* C16: a cycle whose composition reported errors invokes update zero times
\* and leaves the SDL of the gateway as it was; when it is the build of
\* initialize, no SDL is returned and no poll timer is armed
C16_CompositionFailureKeepsSdl ==
    lastCycle.build.composeErrors
    => (/\ lastCycle.build.threw
        /\ lastCycle.publishCalls = 0
        /\ gatewaySdl = lastCycle.sdlBefore
        /\ lastCycle.kind = "init" => ~lastCycle.rearmed)

\* C16 witness: composition failed in a poll cycle after a successful build
C16_Witness ==
    /\ lastCycle.kind = "poll"
    /\ lastCycle.build.composeErrors
    /\ lastCycle.sdlBefore # NoSdl
    /\ gatewaySdl = lastCycle.sdlBefore

\* C17: a timer, the polling phase and the cleanup function exist only after
\* the first build completed; polling begins if and only if a build of
\* initialize succeeded and the interval is positive, and an interval of 0
\* arms no timer and never enters the polling phase
C17_FirstBuildThenPolling ==
    /\ (cleanupReturned \/ timers # {} \/ state # "initialized"
        \/ CyclesInFlight # {})
       => (lastCycle.kind # "none" /\ gatewaySdl # NoSdl)
    /\ (state = "polling" \/ timers # {})
       => (cleanupReturned /\ pollIntervalInMs # 0)
    /\ (cleanupReturned /\ pollIntervalInMs # 0) => state # "initialized"
    /\ pollIntervalInMs = 0
       => (timers = {} /\ state \in {"initialized", "stopped"})

\* C17 witness: initialize returned with interval 0 and left the phase
\* initialized with no timer
C17_Witness ==
    /\ pollIntervalInMs = 0
    /\ cleanupReturned
    /\ lastCycle.kind = "init"
    /\ state = "initialized"
    /\ timers = {}

\* C18: an initial build (no supergraph yet) for which the registry gave no
\* usable descriptor composes the default service alone, reports
\* schemaChanged, and initialize returns that SDL
C18_InitialFallback ==
    (/\ lastCycle.kind = "init"
     /\ lastCycle.build.usable = 0
     /\ lastCycle.sdlBefore = NoSdl)
    => (/\ ~lastCycle.build.threw
        /\ lastCycle.build.schemaChanged
        /\ lastCycle.build.supergraphSdl = ComposedSdl(<<defaultService>>)
        /\ gatewaySdl = ComposedSdl(<<defaultService>>)
        /\ cleanupReturned)

\* C18 witness: the registry answered with the empty list on the initial build
C18_Witness ==
    /\ lastCycle.kind = "init"
    /\ lastFetch.ok
    /\ lastFetch.data = <<>>
    /\ lastCycle.sdlBefore = NoSdl
    /\ gatewaySdl = ComposedSdl(<<defaultService>>)

\* result.sawError as the caller reads it: a property the returned object
\* does not have is undefined, which is falsy
SawError(result) ==
    IF "sawError" \in DOMAIN result THEN result.sawError ELSE FALSE

\* C19: when the registry request failed, getServiceListWithTypeDefs returns
\* an empty list together with a truthy sawError
C19_FailedFetchIsFlagged ==
    (lastCycle.kind # "none" /\ ~lastFetch.ok)
    => LET result == GetServiceListWithTypeDefs(serviceSdlCache, lastFetch)
       IN /\ result.services = <<>>
          /\ SawError(result)

\* the builds whose record is at hand: those awaiting their continuation and
\* the one of the cycle completed last
RecordedBuilds ==
    {pollTask[t].build : t \in {u \in TimerIds : pollTask[u].pc = "built"}}
    \cup (IF lastCycle.kind # "none" THEN {lastCycle.build} ELSE {})

\* C31: on a successful registry fetch getServiceListWithTypeDefs returns
\* schemaChanged = true if and only if some entry of the snapshot has
\* type_defs different from the value cached for its name before the call (a
\* name not cached yet counts as different), whether or not the entry is
\* dropped afterwards; after the call the cache maps every name of the
\* snapshot to its type_defs
C31_SchemaChangedIffSomeEntryDiffers ==
    /\ \A b \in RecordedBuilds :
           b.fetchOk => (b.registryChanged <=> b.differs)
    /\ lastFetch.ok
       => \A i \in 1..Len(lastFetch.data) :
              serviceSdlCache[lastFetch.data[i].name] = lastFetch.data[i].type_defs

\* C31 witness: the only entry of the snapshot had new type_defs and no url;
\* it was dropped and the change was reported
C31_Witness ==
    /\ lastCycle.kind = "poll"
    /\ lastFetch.ok
    /\ Len(lastFetch.data) = 1
    /\ lastFetch.data[1].url = NoUrl
    /\ lastCycle.build.fetchOk
    /\ lastCycle.build.usable = 0
    /\ lastCycle.build.differs
    /\ lastCycle.build.registryChanged
    /\ serviceSdlCache["B"] = lastFetch.data[1].type_defs

\* the entries of a snapshot that have a url and type_defs that parse
ValidEntries(fetch) ==
    {i \in 1..Len(fetch.data) :
        /\ fetch.data[i].url # NoUrl
        /\ fetch.data[i].type_defs \in ParseableTexts}

\* what C33 says of one build and the registry answer it worked on
ComposerInputIsValid(b, fetch) ==
    /\ b.composeCalled
       => /\ Len(b.composerInput) > 0
          /\ \A i \in 1..Len(b.composerInput) :
                 /\ b.composerInput[i].typeDefs # UndefinedAst
                 /\ b.composerInput[i].url # UndefinedUrl
    /\ (fetch.ok /\ ValidEntries(fetch) # {})
       => /\ b.composeCalled
          /\ Len(b.composerInput) = Cardinality(ValidEntries(fetch))
          /\ \A i \in ValidEntries(fetch) :
                 \E j \in 1..Len(b.composerInput) :
                     /\ b.composerInput[j].name = fetch.data[i].name
                     /\ b.composerInput[j].typeDefs[2] = fetch.data[i].type_defs

\* C33: every descriptor passed to the composer has parsed typeDefs and a
\* defined url, the composer is never called with an empty list, and the
\* entries of a snapshot that have a url and parse are composed although
\* other entries of the same snapshot are dropped
C33_ComposerGetsValidDescriptors ==
    [][/\ \A t \in TimerIds :
              (pollTask[t].pc = "awaitRegistry" /\ pollTask'[t].pc = "built")
              => ComposerInputIsValid(pollTask'[t].build, lastFetch')
       /\ initAwait' < initAwait
          => ComposerInputIsValid(lastCycle'.build, lastFetch')]_vars

\* C33 witness: of a snapshot with two entries one was dropped and the other
\* was composed alone, in a poll cycle
C33_Witness ==
    /\ \E t \in TimerIds : pollTask[t].pc = "built"
                            /\ pollTask[t].build.composeCalled
                            /\ Len(pollTask[t].build.composerInput) = 1
                            /\ pollTask[t].build.composerInput[1].name = "A"
    /\ lastFetch.ok
    /\ Len(lastFetch.data) = 2
    /\ Cardinality(ValidEntries(lastFetch)) = 1

FallbackSdl == ComposedSdl(<<defaultService>>)

\* C34: when poll cycles saw the registry unavailable or empty and a later
\* cycle receives the descriptors of before the outage, the SDL handed to the
\* gateway last is, after that cycle, the composition of those descriptors
\* and not the fallback. Stated for the cycle that receives subgraph A alone,
\* with the type_defs the cache holds for it from before the outage, while
\* the gateway is on the fallback schema and no other subgraph was ever seen
C34_RecoveryLeavesFallback ==
    (/\ lastCycle.kind = "poll"
     /\ lastCycle.build.fetchOk
     /\ ~lastCycle.build.threw
     /\ ~lastCycle.build.differs
     /\ lastCycle.build.usable = 1
     /\ Len(lastCycle.build.composerInput) = 1
     /\ lastCycle.build.composerInput[1].name = "A"
     /\ serviceSdlCache["B"] = Undefined
     /\ lastCycle.sdlBefore = FallbackSdl)
    => /\ gatewaySdl = ComposedSdl(lastCycle.build.composerInput)
       /\ gatewaySdl # FallbackSdl

\* C35: after a poll cycle whose registry fetch and composition succeeded,
\* the SDL handed to the gateway last is the composition of that cycle's
\* valid descriptors, also when a subgraph of the previous snapshot is absent
\* or only a url changed
C35_GatewayHoldsLatestComposition ==
    (/\ lastCycle.kind = "poll"
     /\ lastCycle.build.fetchOk
     /\ lastCycle.build.usable > 0
     /\ ~lastCycle.build.threw)
    => gatewaySdl = ComposedSdl(lastCycle.build.composerInput)

SnapshotNames(fetch) == {fetch.data[i].name : i \in 1..Len(fetch.data)}

\* a step in which a build of the manager called getServiceListWithTypeDefs
BuildStep ==
    \/ initAwait' < initAwait
    \/ \E t \in TimerIds :
           pollTask[t].pc = "awaitRegistry" /\ pollTask'[t].pc = "built"

-----------------------------------------------------------------------------
(* Properties of the request pipeline, checked under SpecRequest           *)

ContextReturned == reqPc \in {"context", "awaitSubgraph", "responded"}

ForbiddenMessage == "Forbidden: Operation not allowed by share token scope."

\* C6: a request whose credential failed validation (authError set) causes
\* no subgraph dispatch and is answered with HTTP 401 and one GraphQL error
C6_AuthErrorIs401 ==
    (ContextReturned /\ contextData.authError.set)
    => (/\ subgraphHeaders = {}
        /\ reqPc = "responded"
           => (response.status = 401 /\ Len(response.errors) = 1))

\* C7: a request whose context carries shareScopes and whose operation the
\* Scope Gate does not allow causes no subgraph dispatch and is answered with
\* HTTP 403 and the single error "Forbidden: Operation not allowed by share
\* token scope."
C7_ScopeDenyIs403 ==
    (/\ ContextReturned
     /\ contextData.shareScopes.defined
     /\ ~isRequestAllowed(request.query, request.variables, contextData.shareScopes))
    => (/\ subgraphHeaders = {}
        /\ reqPc = "responded"
           => (/\ response.status = 403
               /\ Len(response.errors) = 1
               /\ response.errors[1].message = ForbiddenMessage))

\* the credential of highest priority on the request: bearer, then session
\* (cookie or token header), then share token
HighestPriorityCredential(req) ==
    IF req.bearer # "" THEN {"bearer"}
    ELSE IF req.cookieToken # "" \/ req.headerToken # "" THEN {"session"}
    ELSE IF req.shareToken # "" THEN {"share"}
    ELSE {}

\* C9: exactly the validation path of the highest-priority credential present
\* is executed, and a request with both a bearer and a share token whose
\* bearer the identity service resolves to a TokenUser ends with that user's
\* id as userId and with shareScopes unset
C9_PriorityAndBearerIdentity ==
    ContextReturned
    => (/\ authPaths = HighestPriorityCredential(request)
        /\ (/\ request.bearer # ""
            /\ request.shareToken # ""
            /\ identityReply.type = "TokenUser")
           => (/\ contextData.userId = identityReply.id
               /\ ~contextData.shareScopes.defined))

\* C10: the context returned is empty, or has userId only, or userId with
\* shareScopes, or authError only: authError excludes userId and shareScopes,
\* and shareScopes is never set without userId
C10_ContextShape ==
    ContextReturned
    => (/\ contextData.authError.set
           => (contextData.userId = Undefined /\ ~contextData.shareScopes.defined)
        /\ contextData.shareScopes.defined => contextData.userId # Undefined)

\* the identity service was reached and its answer was decoded
Decoded(reply) == reply.net = "ok" /\ reply.httpOk /\ reply.body = "json"

Unauthenticated(error) ==
    error.set /\ error.code = "UNAUTHENTICATED" /\ error.status = 401

\* C22: on the bearer path userId is set, to the id returned, if and only if
\* the identity service answers ValidateApiToken with a TokenUser; any other
\* answer yields authError(Unauthenticated) and no userId; on success every
\* subgraph request carries internal-userId with that id
C22_BearerUserIdIffTokenUser ==
    (ContextReturned /\ authPaths = {"bearer"})
    => LET tokenUser == Decoded(identityReply) /\ identityReply.type = "TokenUser"
       IN /\ contextData.userId # Undefined <=> tokenUser
          /\ tokenUser
             => (/\ contextData.userId = identityReply.id
                 /\ \A headers \in subgraphHeaders :
                        <<"internal-userId", identityReply.id>> \in headers)
          /\ (Decoded(identityReply) /\ ~tokenUser)
             => (/\ Unauthenticated(contextData.authError)
                 /\ contextData.userId = Undefined)

\* C23: with a share token only, an answer ShareTokenDetails that includes a
\* userId yields that userId together with the scopes; ShareTokenDetails
\* without userId, or any other answer, yields authError(Unauthenticated)
\* with userId and shareScopes unset
C23_ShareNeedsUserId ==
    (ContextReturned /\ authPaths = {"share"} /\ Decoded(identityReply))
    => IF identityReply.type = "ShareTokenDetails"
          /\ identityReply.userId # Undefined
       THEN /\ contextData.userId = identityReply.userId
            /\ contextData.shareScopes = identityReply.scopes
            /\ ~contextData.authError.set
       ELSE /\ Unauthenticated(contextData.authError)
            /\ contextData.userId = Undefined
            /\ ~contextData.shareScopes.defined

\* the connection failed, the status was not OK, or the body did not decode
TransportFailure(reply) ==
    reply.net = "error" \/ ~reply.httpOk \/ reply.body = "garbage"

\* C24: a transport failure toward the identity service during bearer or
\* share validation yields an error whose HTTP status is 500, not 401
C24_TransportFailureIs500 ==
    (/\ ContextReturned
     /\ authPaths \in {{"bearer"}, {"share"}}
     /\ TransportFailure(identityReply))
    => (/\ contextData.authError.set
        /\ getStatusCodeFromError(ThrownGraphQLError(contextData.authError))
           = JsNumber(500, 0))

\* C30: without a bearer, the cookie is the session token when present and
\* the token header is not tried even if the cookie fails; userId is the
\* token's user_id if and only if the JWT verifies and contains user_id,
\* otherwise authError(Unauthenticated) and no userId; the identity service
\* is not called
C30_SessionCookieFirst ==
    (/\ ContextReturned
     /\ request.bearer = ""
     /\ request.cookieToken # "" \/ request.headerToken # "")
    => LET token == IF request.cookieToken # ""
                    THEN request.cookieToken ELSE request.headerToken
           decoded == JwtVerify(token)
           valid == ~decoded.threw /\ decoded.user_id # Undefined
       IN /\ authPaths = {"session"}
          /\ identityReply = NoReply
          /\ ~contextData.shareScopes.defined
          /\ contextData.userId # Undefined <=> valid
          /\ valid => (contextData.userId = decoded.user_id
                       /\ ~contextData.authError.set)
          /\ ~valid => Unauthenticated(contextData.authError)

\* a request whose cookie fails and whose token header would verify
C30_Witness ==
    /\ ContextReturned
    /\ request.bearer = ""
    /\ request.cookieToken = "jwt:bad"
    /\ request.headerToken = "jwt:u1"
    /\ contextData.authError.set
    /\ contextData.userId = Undefined

-----------------------------------------------------------------------------
(* Properties of the dispatcher                                            *)

HasHeader(headers, name) == \E h \in headers : h[1] = name

\* C11, checked under SpecRequest: every subgraph request carries
\* Content-Type: application/json and the router signature, carries
\* internal-userId with the user id exactly when the context has a userId,
\* and carries X-Share-Scopes exactly when the context has shareScopes
C11_DispatchHeaders ==
    \A headers \in subgraphHeaders :
        /\ <<"Content-Type", "application/json">> \in headers
        /\ <<"internal-router-signature", "a239vmwoeifworg">> \in headers
        /\ contextData.userId # Undefined
           => <<"internal-userId", contextData.userId>> \in headers
        /\ contextData.userId = Undefined => ~HasHeader(headers, "internal-userId")
        /\ HasHeader(headers, "X-Share-Scopes") <=> contextData.shareScopes.defined

SameAuthContext(a, b) ==
    a.userId = b.userId /\ a.shareScopes = b.shareScopes

\* C12, checked under SpecDispatch: two calls of process with the same userId
\* and shareScopes in their contexts send the same headers, whatever the
\* headers of the client requests and of the planned sub-requests
C12_HeadersDependOnContextOnly ==
    (/\ dispCall.sent
     /\ prevCall.sent
     /\ SameAuthContext(dispCall.input.context, prevCall.input.context))
    => dispCall.headers = prevCall.headers

\* C12 witness: two calls for the same user whose client headers and
\* attached headers differ
C12_Witness ==
    /\ dispCall.sent
    /\ prevCall.sent
    /\ dispCall.input.context.userId # Undefined
    /\ SameAuthContext(dispCall.input.context, prevCall.input.context)
    /\ dispCall.input.clientHeaders # prevCall.input.clientHeaders
    /\ dispCall.input.request.http.headers # prevCall.input.request.http.headers
    /\ dispCall.headers = prevCall.headers

Mentions(message, part) == \E i \in 1..Len(message) : message[i] = part

\* C20, checked under SpecDispatch: a non-2xx answer makes process yield an
\* error that carries the subgraph name and the status, and no data; a failed
\* connection makes it yield an error that carries the subgraph name
C20_DispatcherErrorsNameSubgraph ==
    dispPc = "settled"
    => LET outcome == dispResult.outcome
           return == dispResult.return
           name == dispCall.input.service.name
       IN /\ (outcome.net = "ok" /\ ~ResponseOk(outcome.status))
             => (/\ return.threw
                 /\ Mentions(return.message, name)
                 /\ Mentions(return.message, ToString(outcome.status))
                 /\ return.data = Undefined)
          /\ outcome.net = "error"
             => (return.threw /\ Mentions(return.message, name))

-----------------------------------------------------------------------------
(* Properties of isRequestAllowed, checked under SpecGate                  *)

\* an entry matches: its queryName is the operation field name and every
\* required argument equals the variable of that name, as the same value of
\* the same type (an array is the same value only as itself, as under ===)
EntryMatches(entry, fieldName, variables) ==
    /\ entry.queryName = fieldName
    /\ \A j \in 1..Len(entry.requiredArgs) :
           /\ variables.defined
           /\ entry.requiredArgs[j].name \in DOMAIN variables.map
           /\ variables.map[entry.requiredArgs[j].name] = entry.requiredArgs[j].value

QueryOperations(definitions) ==
    {i \in 1..Len(definitions) : definitions[i].operation = "query"}

\* the first operation of kind query in document order
FirstQueryOperation(definitions) ==
    definitions[CHOOSE i \in QueryOperations(definitions) :
                    \A j \in QueryOperations(definitions) : i <= j]

\* the name of its first top-level selection when that is a field
FirstQueryFieldName(definitions) ==
    IF QueryOperations(definitions) = {}
    THEN NoOperationName
    ELSE LET first == FirstQueryOperation(definitions).selections[1]
         IN IF first.kind = "Field" THEN first.name ELSE NoOperationName

\* C28: the operation field name the gate uses is the first top-level
\* selection field of the first operation of kind query; query operations
\* after it do not change it, so the gate allows only what some entry allows
\* for that name
C28_FirstQueryOperationNamesTheField ==
    gatePc = "returned"
    => /\ VisitOperations(gateInput.queryAst, NoOperationName)
          = FirstQueryFieldName(gateInput.queryAst)
       /\ gateResult
          => \E i \in 1..Len(gateInput.scopes.allowedQueries) :
                 gateInput.scopes.allowedQueries[i].queryName
                 = FirstQueryFieldName(gateInput.queryAst)

\* C29: the gate returns false when the scopes are missing, have no
\* allowedQueries or an empty one, when the document has no query operation,
\* and when the first top-level selection of the query is not a field
C29_GateFailsClosed ==
    (/\ gatePc = "returned"
     /\ \/ ~gateInput.scopes.defined
        \/ ~gateInput.scopes.hasAllowedQueries
        \/ gateInput.scopes.allowedQueries = <<>>
        \/ QueryOperations(gateInput.queryAst) = {}
        \/ FirstQueryOperation(gateInput.queryAst).selections[1].kind # "Field")
    => ~gateResult

\* C37: every top-level field of a query that the gate admits matches some
\* entry of the scope set, so a query that selects an allowed field first and
\* a field that is not allowed after it is denied (documents with one
\* operation)
C37_EveryTopLevelFieldIsAllowed ==
    (gatePc = "returned" /\ gateResult /\ Len(gateInput.queryAst) = 1)
    => \A k \in 1..Len(gateInput.queryAst[1].selections) :
           gateInput.queryAst[1].selections[k].kind = "Field"
           => \E i \in 1..Len(gateInput.scopes.allowedQueries) :
                  EntryMatches(gateInput.scopes.allowedQueries[i],
                               gateInput.queryAst[1].selections[k].name,
                               gateInput.variables)

\* the value a field receives for an argument: that of the variable the
\* argument is bound to, the literal written in the document, or nothing
ReceivedValue(field, argName, variables) ==
    LET bound == {a \in 1..Len(field.arguments) :
                    field.arguments[a].name = argName}
    IN IF bound = {}
       THEN UndefinedValue
       ELSE LET node == field.arguments[CHOOSE a \in bound : TRUE].value
            IN IF node.kind = "Variable"
               THEN VariableValue(variables, node.name)
               ELSE node.value

\* C38: when the gate admits an operation, some entry names its field and
\* the field receives, for every required argument of that entry, the
\* required value, whether the argument is bound to a variable of the same
\* name, to another variable or to a literal (documents with one operation
\* whose field passes arguments)
C38_ReceivedArgumentsMatch ==
    (/\ gatePc = "returned" /\ gateResult /\ Len(gateInput.queryAst) = 1
     /\ gateInput.queryAst[1].selections[1].arguments # <<>>)
    => LET field == gateInput.queryAst[1].selections[1]
       IN \E i \in 1..Len(gateInput.scopes.allowedQueries) :
              LET entry == gateInput.scopes.allowedQueries[i]
              IN /\ entry.queryName = field.name
                 /\ \A j \in 1..Len(entry.requiredArgs) :
                        ReceivedValue(field, entry.requiredArgs[j].name,
                                      gateInput.variables)
                        = entry.requiredArgs[j].value

-----------------------------------------------------------------------------
(* Properties of the error-handling middleware, checked under              *)
(* SpecErrorHandler                                                        *)

IsIntegerIn(n, low, high) ==
    n.t = "number" /\ ~n.nan /\ n.tenths = 0 /\ n.whole \in low..high

\* C32: getStatusCodeFromError always returns an integer in 400..599: the
\* extension status of a GraphQLError when that is a number within 400..599,
\* and 500 for a value that is not a GraphQLError, has no numeric status or
\* has a status outside the range
C32_StatusIsIntegerIn400To599 ==
    (errPc = "handled" /\ errResponse.sent)
    => LET error == errInput.error
           code == errResponse.status
           numeric == /\ error.isGraphQLError
                      /\ error.http = "object"
                      /\ error.status.t = "number"
                      /\ ~error.status.nan
       IN /\ IsIntegerIn(code, 400, 599)
          /\ (numeric /\ IsIntegerIn(error.status, 400, 599))
             => code = error.status
          /\ (~numeric \/ error.status.whole \notin 400..599)
             => code = JsNumber(500, 0)

-----------------------------------------------------------------------------
(* Properties of the query-log plugin, checked under SpecLogger            *)

\* C39: requestDidStart ends without throwing, with the message sent, with
\* the failed send logged or, after a failed connection, without a message;
\* a producer whose connection failed does not stay in the module variable,
\* so the next request connects again
C39_LoggerNeverFailsRequest ==
    /\ \A r \in LogRequests :
           /\ logResult[r] \in {"none", "sent", "sendFailed", "notLogged"}
           /\ logPc[r] = "done" <=> logResult[r] # "none"
           /\ logResult[r] = "sent" => logProducer[r] \in connected
    /\ producer # UndefinedProducer
       => \/ producer \in connected
          \/ \E r \in LogRequests :
                 logPc[r] = "awaitConnect" /\ logProducer[r] = producer

\* C39 witness: one request found the producer of another request's
\* connection attempt and its send failed; the attempt failed and the
\* request that made it ended without a message; the producer is reset
C39_Witness ==
    /\ producer = UndefinedProducer
    /\ \E r1, r2 \in LogRequests :
           /\ logPc[r1] = "done"
           /\ logResult[r1] = "sendFailed"
           /\ logProducer[r1] \notin connected
           /\ logPc[r2] = "done"
           /\ logResult[r2] = "notLogged"
           /\ logProducer[r2] = logProducer[r1]

====
